---- MODULE Spec2Model ----
(***************************************************************************)
(* The leave-coin ledger (services/leave_coins.py), the leave request     *)
(* workflow that draws on it (services/leave_service.py), the endpoints    *)
(* around the workflow with their notifications (router/leave.py,          *)
(* router/leave_types.py), and the attendance clock                        *)
(* (services/attendance_rt.py, router/attendance_rt.py).                   *)
(*                                                                         *)
(* Amounts (coins, days) are counted in half units, the granularity of     *)
(* calculate_leave_days: the integer 3 stands for 1.5 days.  Instants are  *)
(* counted in months, the granularity of the rolling window.  Ids are the  *)
(* positions of the rows in their tables; 0 stands for None.  An amount is *)
(* a number: its Decimal and float representations are not told apart.     *)
(***************************************************************************)
EXTENDS Integers, Sequences, FiniteSets, TLC

VARIABLES
    now,        \* the wall clock, datetime.now(timezone.utc)
    coins,      \* table leave_coins (LeaveCoin), by id
    txns,       \* table leave_coin_txn (LeaveCoinTxn), by id
    leaves,     \* table leave_requests (LeaveRequest), by id
    approvals,  \* table leave_approvals (LeaveApproval), by id
    leave_types,\* table leave_types (LeaveType), by id
    sessions,   \* the database sessions that have read and not yet committed
    notifications,  \* table notifications (Notification), as a set
    work_sessions,  \* table work_sessions (WorkSession), by id
    break_intervals \* table break_intervals (BreakInterval), by id

vars == <<now, coins, txns, leaves, approvals, leave_types, sessions,
          notifications, work_sessions, break_intervals>>

\* the tables outside the ledger and the leave workflow
attendance == <<work_sessions, break_intervals>>

----------------------------------------------------------------------------
(* Program constants *)

ROLLING_MONTHS == 12
CAP_COINS == 10

(* Bounds of the model *)

MaxCoins == 4       \* rows of leave_coins
MaxLeaves == 1      \* rows of leave_requests
MaxTime == 12       \* the clock stops advancing here

\* n whole coins (or days) in half units
Whole(n) == 2 * n

\* a minimum that returns its first argument
Min_first(a, b) == a

Min(a, b) == IF a <= b THEN a ELSE b

----------------------------------------------------------------------------
(* The employee directory and the users, read-only for the ledger.         *)
(* Employee 1 reports to employee 2; employee 2 reports to nobody.         *)
(* User u is the account of employee u; user 3 is an admin without an      *)
(* employee profile.                                                       *)

Employees == {1, 2}
Users == {1, 2, 3}

manager_id(e) == IF e = 1 THEN 2 ELSE 0

\* Employee.user_id == actor_user.id, first(); 0 when there is none
employee_of_user(u) == IF u \in Employees THEN u ELSE 0

\* the inputs the handlers are called with:
\* grant_monthly_coins and dev_grant_now both pass amount 1
GrantAmounts == {Whole(1)}
ClockSteps == {6}
\* end_date - start_date in days, and duration_type
RequestShapes == { <<-1, "full_day">>, <<0, "first_half">>,
                   <<1, "full_day">> }
LeaveTypeNames == {"casual"}

----------------------------------------------------------------------------
(* services/leave_coins.py *)

rolling_window_start(as_of) == as_of - ROLLING_MONTHS

expiry_from_grant(grant_date) == grant_date + ROLLING_MONTHS

RECURSIVE SumRemaining(_, _)
SumRemaining(cs, S) ==
    IF S = {} THEN 0
    ELSE LET i == CHOOSE j \in S : TRUE
         IN  cs[i].remaining + SumRemaining(cs, S \ {i})

\* the rows get_available_coins selects
AvailableLots(cs, employee_id, as_of) ==
    { i \in DOMAIN cs :
        /\ cs[i].employee_id = employee_id
        /\ cs[i].grant_date >= rolling_window_start(as_of)
        /\ cs[i].expiry_date > as_of
        /\ cs[i].remaining > 0 }

get_available_coins(cs, employee_id, as_of) ==
    LET raw_available == SumRemaining(cs, AvailableLots(cs, employee_id, as_of))
    IN  [ available_coins |-> Min(raw_available, Whole(CAP_COINS)),
          raw_available   |-> raw_available ]

\* a grant_coins that refuses at the cap and otherwise grants the amount asked
grant_coins_unclamped(cs, ts, employee_id, amount, t) ==
    LET bal == get_available_coins(cs, employee_id, t)
    IN  IF bal.available_coins >= Whole(CAP_COINS) \/ amount <= 0
        THEN [coins |-> cs, txns |-> ts, ret |-> 0]
        ELSE [ coins |-> Append(cs, [ employee_id |-> employee_id,
                                      grant_date  |-> t,
                                      expiry_date |-> expiry_from_grant(t),
                                      quantity    |-> amount,
                                      remaining   |-> amount ]),
               txns  |-> Append(ts, [ employee_id |-> employee_id,
                                      coin_id     |-> Len(cs) + 1,
                                      type        |-> "grant",
                                      amount      |-> amount,
                                      ref_leave_request_id |-> 0 ]),
               ret   |-> amount ]

\* a grant_coins that refuses at the cap and otherwise clamps the amount to
\* the cap, not to the room left under it
grant_coins_room_ignored(cs, ts, employee_id, amount, t) ==
    LET bal == get_available_coins(cs, employee_id, t)
        grant_amount == Min(amount, Whole(CAP_COINS))
    IN  IF bal.available_coins >= Whole(CAP_COINS) \/ grant_amount <= 0
        THEN [coins |-> cs, txns |-> ts, ret |-> 0]
        ELSE [ coins |-> Append(cs, [ employee_id |-> employee_id,
                                      grant_date  |-> t,
                                      expiry_date |-> expiry_from_grant(t),
                                      quantity    |-> grant_amount,
                                      remaining   |-> grant_amount ]),
               txns  |-> Append(ts, [ employee_id |-> employee_id,
                                      coin_id     |-> Len(cs) + 1,
                                      type        |-> "grant",
                                      amount      |-> grant_amount,
                                      ref_leave_request_id |-> 0 ]),
               ret   |-> grant_amount ]

\* grant_coins: the tables after the call and the value returned
grant_coins(cs, ts, employee_id, amount, t) ==
    LET bal == get_available_coins(cs, employee_id, t)
        grant_amount == Min(amount, Whole(CAP_COINS) - bal.available_coins)
    IN  IF bal.available_coins >= Whole(CAP_COINS) \/ grant_amount <= 0
        THEN [coins |-> cs, txns |-> ts, ret |-> 0]
        ELSE [ coins |-> Append(cs, [ employee_id |-> employee_id,
                                      grant_date  |-> t,
                                      expiry_date |-> expiry_from_grant(t),
                                      quantity    |-> grant_amount,
                                      remaining   |-> grant_amount ]),
               txns  |-> Append(ts, [ employee_id |-> employee_id,
                                      coin_id     |-> Len(cs) + 1,
                                      type        |-> "grant",
                                      amount      |-> grant_amount,
                                      ref_leave_request_id |-> 0 ]),
               ret   |-> grant_amount ]

\* a selection by expiry alone
ExpirableLots_swept_too(cs, t) ==
    { i \in DOMAIN cs : cs[i].expiry_date <= t }

\* the rows expire_coins selects
ExpirableLots(cs, t) ==
    { i \in DOMAIN cs : cs[i].expiry_date <= t /\ cs[i].remaining > 0 }

\* the loop of expire_coins over the selected rows, in id order
RECURSIVE ExpireLoop(_, _, _, _)
ExpireLoop(cs, ts, S, total_expired) ==
    IF S = {} THEN [coins |-> cs, txns |-> ts, ret |-> total_expired]
    ELSE LET c   == CHOOSE i \in S : \A j \in S : i <= j
             amt == cs[c].remaining
         IN  ExpireLoop([cs EXCEPT ![c].remaining = 0],
                        Append(ts, [ employee_id |-> cs[c].employee_id,
                                     coin_id     |-> c,
                                     type        |-> "expire",
                                     amount      |-> amt,
                                     ref_leave_request_id |-> 0 ]),
                        S \ {c},
                        total_expired + amt)

expire_coins(cs, ts, t) == ExpireLoop(cs, ts, ExpirableLots(cs, t), 0)

\* a selection that leaves the expiry out
ConsumableLots_expired_too(cs, employee_id, t) ==
    { i \in DOMAIN cs :
        /\ cs[i].employee_id = employee_id
        /\ cs[i].remaining > 0 }

\* the rows consume_coins selects
ConsumableLots(cs, employee_id, t) ==
    { i \in DOMAIN cs :
        /\ cs[i].employee_id = employee_id
        /\ cs[i].expiry_date > t
        /\ cs[i].remaining > 0 }

\* an ordering by expiry descending
LotBefore_latest(cs, i, j) ==
    \/ cs[i].expiry_date > cs[j].expiry_date
    \/ cs[i].expiry_date = cs[j].expiry_date /\ i <= j

\* order_by(expiry_date.asc(), id.asc())
LotBefore(cs, i, j) ==
    \/ cs[i].expiry_date < cs[j].expiry_date
    \/ cs[i].expiry_date = cs[j].expiry_date /\ i <= j

\* the loop of consume_coins over the selected rows, in that order
RECURSIVE ConsumeLoop(_, _, _, _, _, _, _)
ConsumeLoop(cs, ts, S, employee_id, ref, to_consume, consumed_total) ==
    IF S = {} \/ to_consume <= 0
    THEN [coins |-> cs, txns |-> ts, consumed_total |-> consumed_total]
    ELSE LET c    == CHOOSE i \in S : \A j \in S : LotBefore(cs, i, j)
             take == Min(cs[c].remaining, to_consume)
         IN  IF take > 0
             THEN ConsumeLoop([cs EXCEPT ![c].remaining = @ - take],
                              Append(ts, [ employee_id |-> employee_id,
                                           coin_id     |-> c,
                                           type        |-> "consume",
                                           amount      |-> take,
                                           ref_leave_request_id |-> ref ]),
                              S \ {c}, employee_id, ref,
                              to_consume - take, consumed_total + take)
             ELSE ConsumeLoop(cs, ts, S \ {c}, employee_id, ref,
                              to_consume, consumed_total)

\* a consume_coins that takes the whole amount off the first lot
consume_coins_overdraw(cs, ts, employee_id, amount, ref, t) ==
    LET S == ConsumableLots(cs, employee_id, t)
    IN  IF amount <= 0 \/ S = {}
        THEN [coins |-> cs, txns |-> ts, ret |-> 0]
        ELSE LET c == CHOOSE i \in S : \A j \in S : LotBefore(cs, i, j)
             IN  [ coins |-> [cs EXCEPT ![c].remaining = @ - amount],
                   txns  |-> Append(ts, [ employee_id |-> employee_id,
                                          coin_id     |-> c,
                                          type        |-> "consume",
                                          amount      |-> amount,
                                          ref_leave_request_id |-> ref ]),
                   ret   |-> amount ]

\* a consume_coins that stops after the first lot
consume_coins_one_lot(cs, ts, employee_id, amount, ref, t) ==
    IF amount <= 0 THEN [coins |-> cs, txns |-> ts, ret |-> 0]
    ELSE LET S == ConsumableLots(cs, employee_id, t)
             r == ConsumeLoop(cs, ts,
                              { i \in S : \A j \in S : LotBefore(cs, i, j) },
                              employee_id, ref, amount, 0)
         IN  [ coins |-> r.coins, txns |-> r.txns,
               ret   |-> IF r.consumed_total < amount THEN 0
                         ELSE r.consumed_total ]

\* a consume_coins that debits the lots and writes no transaction for it
consume_coins_unlogged(cs, ts, employee_id, amount, ref, t) ==
    IF amount <= 0 THEN [coins |-> cs, txns |-> ts, ret |-> 0]
    ELSE LET r == ConsumeLoop(cs, ts, ConsumableLots(cs, employee_id, t),
                              employee_id, ref, amount, 0)
         IN  [ coins |-> r.coins, txns |-> ts,
               ret   |-> IF r.consumed_total < amount THEN 0
                         ELSE r.consumed_total ]

\* consume_coins: the session's tables after the call (uncommitted) and the
\* value returned, 0 when the amount could not be met in full
consume_coins(cs, ts, employee_id, amount, ref, t) ==
    IF amount <= 0 THEN [coins |-> cs, txns |-> ts, ret |-> 0]
    ELSE LET r == ConsumeLoop(cs, ts, ConsumableLots(cs, employee_id, t),
                              employee_id, ref, amount, 0)
         IN  [ coins |-> r.coins, txns |-> r.txns,
               ret   |-> IF r.consumed_total < amount THEN 0
                         ELSE r.consumed_total ]

----------------------------------------------------------------------------
(* services/leave_service.py *)

\* calculate_leave_days, for end_date - start_date = span days
calculate_leave_days(span, duration_type) ==
    LET full_days == span + 1
    IN  IF duration_type \in {"first_half", "second_half"}
        THEN IF span = 0 THEN 1 ELSE Whole(full_days) - 1
        ELSE Whole(full_days)

\* a split that leaves the unpaid days at the total
calculate_paid_unpaid_split_unpaid_total(cs, employee_id, total_days, t) ==
    LET available == get_available_coins(cs, employee_id, t).available_coins
        paid == Min(total_days, available)
    IN  [paid |-> paid, unpaid |-> total_days]

\* a split that does not look at the balance
calculate_paid_unpaid_split_all_paid(cs, employee_id, total_days, t) ==
    [paid |-> total_days, unpaid |-> 0]

calculate_paid_unpaid_split(cs, employee_id, total_days, t) ==
    LET available == get_available_coins(cs, employee_id, t).available_coins
        paid == Min(total_days, available)
    IN  [paid |-> paid, unpaid |-> total_days - paid]

\* the chain of approvers: the direct manager, when there is one
determine_approval_workflow(employee_id) ==
    IF manager_id(employee_id) # 0
    THEN << [level |-> 1, approver_id |-> manager_id(employee_id)] >>
    ELSE << >>

\* LeaveType.name == leave_type, is_active, first(); 0 when there is none
FindLeaveType(lts, name) ==
    IF \E i \in DOMAIN lts : lts[i].name = name
    THEN CHOOSE i \in DOMAIN lts :
            /\ lts[i].name = name
            /\ \A j \in DOMAIN lts : lts[j].name = name => i <= j
    ELSE 0

\* the pending approvals of a request, filtered as the queries filter them
PendingApprovalsOf(aps, leave_request_id) ==
    { i \in DOMAIN aps : /\ aps[i].leave_request_id = leave_request_id
                         /\ aps[i].status = "pending" }

\* order_by(sequence).first() over a set of approvals; 0 when it is empty
FirstBySequence(aps, S) ==
    IF S = {} THEN 0
    ELSE CHOOSE i \in S : \A j \in S :
            \/ aps[i].sequence < aps[j].sequence
            \/ aps[i].sequence = aps[j].sequence /\ i <= j

\* a chain that holds every step twice
RECURSIVE NewApprovals_doubled(_, _, _)
NewApprovals_doubled(steps, leave_request_id, i) ==
    IF i > Len(steps) THEN << >>
    ELSE LET step == [ leave_request_id |-> leave_request_id,
                       level       |-> steps[i].level,
                       approver_id |-> steps[i].approver_id,
                       status      |-> "pending",
                       sequence    |-> i,
                       is_final    |-> (i = Len(steps)) ]
         IN  << step, step >>
             \o NewApprovals_doubled(steps, leave_request_id, i + 1)

\* a chain whose last step is not marked final
RECURSIVE NewApprovals_no_final(_, _, _)
NewApprovals_no_final(steps, leave_request_id, i) ==
    IF i > Len(steps) THEN << >>
    ELSE << [ leave_request_id |-> leave_request_id,
              level       |-> steps[i].level,
              approver_id |-> steps[i].approver_id,
              status      |-> "pending",
              sequence    |-> i,
              is_final    |-> FALSE ] >>
         \o NewApprovals_no_final(steps, leave_request_id, i + 1)

\* the rows create_leave_request adds to leave_approvals
RECURSIVE NewApprovals(_, _, _)
NewApprovals(steps, leave_request_id, i) ==
    IF i > Len(steps) THEN << >>
    ELSE << [ leave_request_id |-> leave_request_id,
              level       |-> steps[i].level,
              approver_id |-> steps[i].approver_id,
              status      |-> "pending",
              sequence    |-> i,
              is_final    |-> (i = Len(steps)) ] >>
         \o NewApprovals(steps, leave_request_id, i + 1)

----------------------------------------------------------------------------
(* A handler is an operator from the tables its session sees and its       *)
(* arguments to its outcome and the tables it leaves to commit.  A handler *)
(* that raises commits nothing: get_db closes the session.                 *)

DB == [ coins |-> coins, txns |-> txns, leaves |-> leaves,
        approvals |-> approvals, leave_types |-> leave_types ]

Ok(db) == [outcome |-> "ok", db |-> db]
Raised(db, outcome) == [outcome |-> outcome, db |-> db]

\* the loop of grant_monthly_coins over the employees, in id order
RECURSIVE GrantLoop(_, _, _, _, _)
GrantLoop(cs, ts, S, amount, t) ==
    IF S = {} THEN [coins |-> cs, txns |-> ts]
    ELSE LET e == CHOOSE i \in S : \A j \in S : i <= j
             g == grant_coins(cs, ts, e, amount, t)
         IN  GrantLoop(g.coins, g.txns, S \ {e}, amount, t)

\* grant_monthly_coins: grant_coins for every employee, then db.commit()
grant_monthly_coins(db, amount, t) ==
    LET g == GrantLoop(db.coins, db.txns, Employees, amount, t)
    IN  Ok([db EXCEPT !.coins = g.coins, !.txns = g.txns])

\* expire_old_coins: expire_coins, then db.commit()
expire_old_coins(db, t) ==
    LET x == expire_coins(db.coins, db.txns, t)
    IN  Ok([db EXCEPT !.coins = x.coins, !.txns = x.txns])

create_leave_request(db, employee_id, span, duration_type, leave_type, t) ==
    LET found == FindLeaveType(db.leave_types, leave_type)
        \* the fallback leave type, inserted with the code "GENERAL"
        fallback == [code |-> "GENERAL", name |-> leave_type,
                     allow_half_day |-> TRUE, uses_balance |-> TRUE]
        lts == IF found # 0 THEN db.leave_types
               ELSE Append(db.leave_types, fallback)
        lt_id == IF found # 0 THEN found ELSE Len(db.leave_types) + 1
        lt == lts[lt_id]
        total_days == calculate_leave_days(span, duration_type)
        split == IF lt.uses_balance
                 THEN calculate_paid_unpaid_split(db.coins, employee_id,
                                                  total_days, t)
                 ELSE [paid |-> total_days, unpaid |-> 0]
        id == Len(db.leaves) + 1
        steps == determine_approval_workflow(employee_id)
        leave_request ==
            [ employee_id   |-> employee_id,
              total_days    |-> total_days,
              paid_days     |-> split.paid,
              unpaid_days   |-> split.unpaid,
              leave_type_id |-> lt_id,
              status        |-> "pending",
              workflow_status |-> IF steps # << >> THEN "pending_manager"
                                  ELSE "pending_admin",
              current_approver_id |-> IF steps # << >>
                                      THEN steps[1].approver_id ELSE 0 ]
    IN  IF span < 0 THEN Raised(db, "End date must be >= start date")
        ELSE IF employee_id \notin Employees
        THEN Raised(db, "Employee not found")
        ELSE IF /\ found = 0
                /\ \E i \in DOMAIN db.leave_types :
                       db.leave_types[i].code = "GENERAL"
        THEN \* leave_types.code is unique: db.flush() fails
             Raised(db, "IntegrityError")
        ELSE IF /\ duration_type \in {"first_half", "second_half"}
                /\ ~lt.allow_half_day
        THEN Raised(db, "Half-day leave not allowed for this leave type")
        ELSE IF total_days <= 0 THEN Raised(db, "Invalid leave duration")
        ELSE Ok([db EXCEPT
                   !.leave_types = lts,
                   !.leaves = Append(@, leave_request),
                   !.approvals = @ \o NewApprovals(steps, id, 1)])

\* an approve_leave_level that takes the first pending step of the request,
\* whoever its approver is
approve_leave_level_any_employee(db, leave_request_id, actor_user, approve, t) ==
    LET leave == db.leaves[leave_request_id]
        approver_emp == employee_of_user(actor_user)
        approval == FirstBySequence(db.approvals,
                       PendingApprovalsOf(db.approvals, leave_request_id))
        acted == [db.approvals EXCEPT ![approval].status =
                     IF approve THEN "approved" ELSE "denied"]
        next_approval == FirstBySequence(acted,
                       { i \in PendingApprovalsOf(acted, leave_request_id) :
                             acted[i].sequence > acted[approval].sequence })
        c == consume_coins(db.coins, db.txns, leave.employee_id,
                           leave.paid_days, leave_request_id, t)
    IN  IF leave_request_id \notin DOMAIN db.leaves
        THEN Raised(db, "Leave request not found")
        ELSE IF leave.status # "pending"
        THEN Raised(db, "Leave request is not pending")
        ELSE IF approver_emp = 0
        THEN Raised(db, "Approver profile not found")
        ELSE IF approval = 0
        THEN Raised(db, "No pending approval for this user")
        ELSE IF ~approve
        THEN Ok([db EXCEPT
                   !.approvals = acted,
                   !.leaves[leave_request_id].status = "denied",
                   !.leaves[leave_request_id].workflow_status = "denied"])
        ELSE IF next_approval # 0
        THEN Ok([db EXCEPT
                   !.approvals = acted,
                   !.leaves[leave_request_id].current_approver_id =
                        acted[next_approval].approver_id,
                   !.leaves[leave_request_id].workflow_status = "pending_level"])
        ELSE \* fully approved: the value consume_coins returns is not read
             Ok([db EXCEPT
                   !.approvals = acted,
                   !.leaves[leave_request_id].status = "approved",
                   !.leaves[leave_request_id].workflow_status = "fully_approved",
                   !.coins = c.coins,
                   !.txns = c.txns])

approve_leave_level(db, leave_request_id, actor_user, approve, t) ==
    LET leave == db.leaves[leave_request_id]
        approver_emp == employee_of_user(actor_user)
        approval == FirstBySequence(db.approvals,
                       { i \in PendingApprovalsOf(db.approvals, leave_request_id) :
                             db.approvals[i].approver_id = approver_emp })
        acted == [db.approvals EXCEPT ![approval].status =
                     IF approve THEN "approved" ELSE "denied"]
        next_approval == FirstBySequence(acted,
                       { i \in PendingApprovalsOf(acted, leave_request_id) :
                             acted[i].sequence > acted[approval].sequence })
        c == consume_coins(db.coins, db.txns, leave.employee_id,
                           leave.paid_days, leave_request_id, t)
    IN  IF leave_request_id \notin DOMAIN db.leaves
        THEN Raised(db, "Leave request not found")
        ELSE IF leave.status # "pending"
        THEN Raised(db, "Leave request is not pending")
        ELSE IF approver_emp = 0
        THEN Raised(db, "Approver profile not found")
        ELSE IF approval = 0
        THEN Raised(db, "No pending approval for this user")
        ELSE IF ~approve
        THEN Ok([db EXCEPT
                   !.approvals = acted,
                   !.leaves[leave_request_id].status = "denied",
                   !.leaves[leave_request_id].workflow_status = "denied"])
        ELSE IF next_approval # 0
        THEN Ok([db EXCEPT
                   !.approvals = acted,
                   !.leaves[leave_request_id].current_approver_id =
                        acted[next_approval].approver_id,
                   !.leaves[leave_request_id].workflow_status = "pending_level"])
        ELSE \* fully approved: the value consume_coins returns is not read
             Ok([db EXCEPT
                   !.approvals = acted,
                   !.leaves[leave_request_id].status = "approved",
                   !.leaves[leave_request_id].workflow_status = "fully_approved",
                   !.coins = c.coins,
                   !.txns = c.txns])

\* an admin_approve_leave that commits what consume_coins debited when the
\* amount could not be met
admin_approve_leave_no_rollback(db, leave_request_id, t, t2) ==
    LET leave == db.leaves[leave_request_id]
        skipped == [ i \in DOMAIN db.approvals |->
                       IF i \in PendingApprovalsOf(db.approvals, leave_request_id)
                       THEN [db.approvals[i] EXCEPT !.status = "skipped"]
                       ELSE db.approvals[i] ]
        split == calculate_paid_unpaid_split(db.coins, leave.employee_id,
                                             leave.total_days, t)
        c == consume_coins(db.coins, db.txns, leave.employee_id,
                           split.paid, leave_request_id, t2)
    IN  IF leave_request_id \notin DOMAIN db.leaves
        THEN Raised(db, "Leave request not found")
        ELSE IF leave.status = "approved"
        THEN Raised(db, "Leave already approved")
        ELSE IF leave.status = "denied"
        THEN Raised(db, "Cannot approve denied leave")
        ELSE Ok([db EXCEPT
                   !.approvals = skipped,
                   !.leaves[leave_request_id].paid_days = split.paid,
                   !.leaves[leave_request_id].unpaid_days = split.unpaid,
                   !.leaves[leave_request_id].status = "approved",
                   !.leaves[leave_request_id].workflow_status = "admin_approved",
                   !.coins = c.coins,
                   !.txns = c.txns])

\* t is the instant calculate_paid_unpaid_split reads the clock at, t2 the
\* instant consume_coins reads it at afterwards
admin_approve_leave(db, leave_request_id, t, t2) ==
    LET leave == db.leaves[leave_request_id]
        skipped == [ i \in DOMAIN db.approvals |->
                       IF i \in PendingApprovalsOf(db.approvals, leave_request_id)
                       THEN [db.approvals[i] EXCEPT !.status = "skipped"]
                       ELSE db.approvals[i] ]
        split == calculate_paid_unpaid_split(db.coins, leave.employee_id,
                                             leave.total_days, t)
        c == consume_coins(db.coins, db.txns, leave.employee_id,
                           split.paid, leave_request_id, t2)
    IN  IF leave_request_id \notin DOMAIN db.leaves
        THEN Raised(db, "Leave request not found")
        ELSE IF leave.status = "approved"
        THEN Raised(db, "Leave already approved")
        ELSE IF leave.status = "denied"
        THEN Raised(db, "Cannot approve denied leave")
        ELSE IF split.paid > 0 /\ c.ret # split.paid
        THEN \* db.rollback()
             Raised(db, "Insufficient balance")
        ELSE Ok([db EXCEPT
                   !.approvals = skipped,
                   !.leaves[leave_request_id].paid_days = split.paid,
                   !.leaves[leave_request_id].unpaid_days = split.unpaid,
                   !.leaves[leave_request_id].status = "approved",
                   !.leaves[leave_request_id].workflow_status = "admin_approved",
                   !.coins = c.coins,
                   !.txns = c.txns])

\* a deny_leave_request that takes the paid days of the request off the lots
deny_leave_request_debiting(db, leave_request_id) ==
    IF leave_request_id \notin DOMAIN db.leaves
    THEN Raised(db, "Leave request not found")
    ELSE IF db.leaves[leave_request_id].status = "denied"
    THEN Raised(db, "Leave already denied")
    ELSE LET leave == db.leaves[leave_request_id]
             c == consume_coins(db.coins, db.txns, leave.employee_id,
                                leave.paid_days, leave_request_id, 0)
         IN  Ok([db EXCEPT !.leaves[leave_request_id].status = "denied",
                           !.coins = c.coins,
                           !.txns = c.txns])

\* a deny_leave_request that puts a decided request back to pending
deny_leave_request_reopening(db, leave_request_id) ==
    IF leave_request_id \notin DOMAIN db.leaves
    THEN Raised(db, "Leave request not found")
    ELSE Ok([db EXCEPT !.leaves[leave_request_id].status = "pending"])

deny_leave_request(db, leave_request_id) ==
    IF leave_request_id \notin DOMAIN db.leaves
    THEN Raised(db, "Leave request not found")
    ELSE IF db.leaves[leave_request_id].status = "denied"
    THEN Raised(db, "Leave already denied")
    ELSE Ok([db EXCEPT !.leaves[leave_request_id].status = "denied"])

----------------------------------------------------------------------------
(* The state machine: the clock, and one handler at a time *)

Sessions == {1, 2}
Idle == [op |-> "idle"]

Init ==
    /\ now = 0
    /\ coins = << >>
    /\ txns = << >>
    /\ leaves = << >>
    /\ approvals = << >>
    /\ leave_types = << >>
    /\ sessions = [s \in Sessions |-> Idle]
    /\ notifications = {}
    /\ work_sessions = << >>
    /\ break_intervals = << >>

\* a handler ends with result res: its session commits what it leaves, or,
\* when it raised, nothing (then res.db is the tables as they were)
Finish(res) ==
    /\ coins' = res.db.coins
    /\ txns' = res.db.txns
    /\ leaves' = res.db.leaves
    /\ approvals' = res.db.approvals
    /\ leave_types' = res.db.leave_types
    /\ UNCHANGED <<sessions, notifications, attendance>>

\* time passes between two handlers
AdvanceClock ==
    /\ \E d \in ClockSteps :
         /\ now + d <= MaxTime
         /\ now' = now + d
    /\ UNCHANGED <<coins, txns, leaves, approvals, leave_types, sessions,
                   notifications, attendance>>

GrantCoins ==
    /\ Len(coins) + Cardinality(Employees) <= MaxCoins
    /\ \E a \in GrantAmounts :
         Finish(grant_monthly_coins(DB, a, now))
    /\ UNCHANGED now

ExpireCoins ==
    /\ Finish(expire_old_coins(DB, now))
    /\ UNCHANGED now

CreateLeaveRequest ==
    /\ Len(leaves) < MaxLeaves
    /\ \E e \in Employees, shape \in RequestShapes, n \in LeaveTypeNames :
         Finish(create_leave_request(DB, e, shape[1], shape[2], n, now))
    /\ UNCHANGED now

ApproveLeaveLevel ==
    /\ \E r \in DOMAIN leaves, u \in Users, approve \in BOOLEAN :
         Finish(approve_leave_level(DB, r, u, approve, now))
    /\ UNCHANGED now

AdminApproveLeave ==
    \E r \in DOMAIN leaves, t2 \in {now} \cup {now + d : d \in ClockSteps} :
        /\ t2 <= MaxTime
        /\ Finish(admin_approve_leave(DB, r, now, t2))
        /\ now' = t2

DenyLeaveRequest ==
    /\ \E r \in DOMAIN leaves :
         Finish(deny_leave_request(DB, r))
    /\ UNCHANGED now

Next ==
    \/ AdvanceClock
    \/ GrantCoins
    \/ ExpireCoins
    \/ CreateLeaveRequest
    \/ ApproveLeaveLevel
    \/ AdminApproveLeave
    \/ DenyLeaveRequest

Spec == Init /\ [][Next]_vars

----------------------------------------------------------------------------
(* Several sessions at once.  SessionLocal is a plain sessionmaker         *)
(* (autoflush=False) and no query of approve_leave_level or consume_coins  *)
(* locks a row: the handler reads the rows it needs, changes them in its   *)
(* session, and db.commit() flushes one UPDATE per changed row, setting    *)
(* the changed columns to the values computed in the session, and one      *)
(* INSERT per new row.  Between the reads and the commit other sessions    *)
(* commit.                                                                 *)

\* the UPDATE of one row: the columns the session changed, over the row as
\* it is now
MergeRow(cur, snap, new) ==
    [ f \in DOMAIN cur |-> IF new[f] # snap[f] THEN new[f] ELSE cur[f] ]

\* the flush of one table: the UPDATEs of the rows the session had read, and
\* the INSERTs of the rows it added
MergeTable(cur, snap, new) ==
    [ i \in 1..Len(cur) |->
        IF i <= Len(snap) THEN MergeRow(cur[i], snap[i], new[i]) ELSE cur[i] ]
    \o SubSeq(new, Len(snap) + 1, Len(new))

\* approve_leave_level up to its db.commit(): session s has read the tables
\* and holds the rows it changed
BeginApproveLevel(s) ==
    /\ sessions[s] = Idle
    /\ \E r \in DOMAIN leaves, u \in Users :
         LET res == approve_leave_level(DB, r, u, TRUE, now)
         IN  /\ res.outcome = "ok"
             /\ sessions' = [sessions EXCEPT ![s] =
                    [op |-> "approve_leave_level", snap |-> DB, db |-> res.db]]
    /\ UNCHANGED <<now, coins, txns, leaves, approvals, leave_types,
                   notifications, attendance>>

\* the db.commit() of session s
CommitApproveLevel(s) ==
    /\ sessions[s] # Idle
    /\ LET snap == sessions[s].snap
           new  == sessions[s].db
       IN  /\ coins' = MergeTable(coins, snap.coins, new.coins)
           /\ txns' = MergeTable(txns, snap.txns, new.txns)
           /\ leaves' = MergeTable(leaves, snap.leaves, new.leaves)
           /\ approvals' = MergeTable(approvals, snap.approvals, new.approvals)
           /\ leave_types' =
                  MergeTable(leave_types, snap.leave_types, new.leave_types)
    /\ sessions' = [sessions EXCEPT ![s] = Idle]
    /\ UNCHANGED <<now, notifications, attendance>>

NextConc ==
    \/ Next
    \/ \E s \in Sessions : BeginApproveLevel(s)
    \/ \E s \in Sessions : CommitApproveLevel(s)

SpecConc == Init /\ [][NextConc]_vars

----------------------------------------------------------------------------
(* The ledger on its own: the functions of services/leave_coins.py called  *)
(* in any order, with any employee and amount, each call committed by its  *)
(* caller.                                                                 *)

MaxLedgerLots == 3      \* rows of leave_coins in the ledger on its own

\* the employee whose ledger is looked at
LedgerEmployees == {1}
\* the amounts grant_coins is called with
LedgerGrantAmounts == {Whole(3), Whole(5)}
\* the amounts consume_coins is called with
LedgerConsumeAmounts == {Whole(4)}

\* grant_coins, then db.commit()
LedgerGrant ==
    /\ Len(coins) < MaxLedgerLots
    /\ \E e \in LedgerEmployees, a \in LedgerGrantAmounts :
         LET g == grant_coins(coins, txns, e, a, now)
         IN  coins' = g.coins /\ txns' = g.txns
    /\ UNCHANGED <<now, leaves, approvals, leave_types, sessions,
                   notifications, attendance>>

\* consume_coins, then db.commit(), whatever consume_coins returned
LedgerConsume ==
    /\ \E e \in LedgerEmployees, a \in LedgerConsumeAmounts :
         LET c == consume_coins(coins, txns, e, a, 0, now)
         IN  coins' = c.coins /\ txns' = c.txns
    /\ UNCHANGED <<now, leaves, approvals, leave_types, sessions,
                   notifications, attendance>>

NextLedger ==
    \/ AdvanceClock
    \/ ExpireCoins
    \/ LedgerGrant
    \/ LedgerConsume

SpecLedger == Init /\ [][NextLedger]_vars

----------------------------------------------------------------------------
(* router/leave.py: the endpoints around the handlers, and the             *)
(* notifications they create (services/notification_service.py).  An       *)
(* endpoint is an operator from the tables, the notifications and its      *)
(* arguments to its outcome, the tables as committed and the notifications *)
(* as committed.  User 3 has the role admin, users 1 and 2 the role        *)
(* employee.                                                               *)

role_name(u) == IF u = 3 THEN "admin" ELSE "employee"

\* Employee.user_id of employee e
user_id_of(e) == e

\* create_notification: one row of notifications, committed at once
create_notification(ns, user_id, ntype, related_entity_id) ==
    ns \cup { [ user_id |-> user_id, type |-> ntype,
                related_entity_id |-> related_entity_id ] }

Responded(outcome, db, ns) ==
    [outcome |-> outcome, db |-> db, notifications |-> ns]

\* POST /leaves; employee_id is the field of the body, 0 when it is absent
request_leave(db, ns, current_user, employee_id, span, duration_type, leave_type, t) ==
    LET is_admin == role_name(current_user) \in {"admin", "super_admin"}
        emp_id == IF is_admin THEN employee_id
                  ELSE employee_of_user(current_user)
        res == create_leave_request(db, emp_id, span, duration_type,
                                    leave_type, t)
        id == Len(db.leaves) + 1
        db_leave == res.db.leaves[id]
        requested == create_notification(ns, current_user, "leave_request", id)
    IN  IF ~is_admin /\ emp_id = 0
        THEN Responded("404 Employee profile not found", db, ns)
        ELSE IF is_admin /\ employee_id = 0
        THEN Responded("400 employee_id required for admin users", db, ns)
        ELSE IF is_admin /\ employee_id \notin Employees
        THEN Responded("404 Employee not found", db, ns)
        ELSE IF res.outcome # "ok"
        THEN Responded(res.outcome, db, ns)
        ELSE IF db_leave.current_approver_id # 0
        THEN Responded("ok", res.db,
                 create_notification(requested,
                     user_id_of(db_leave.current_approver_id),
                     "approval_pending", id))
        ELSE Responded("ok", res.db, requested)

\* POST /leaves/{leave_id}/review.  The handler has committed when the
\* endpoint reads requester_emp, a local name that is bound further down:
\* the read raises UnboundLocalError, which the endpoint does not catch.
review_leave(db, ns, current_user, leave_id, action, t, t2) ==
    LET res == IF action = "approve"
               THEN admin_approve_leave(db, leave_id, t, t2)
               ELSE deny_leave_request(db, leave_id)
    IN  IF role_name(current_user) \notin {"admin", "super_admin"}
        THEN Responded("403", db, ns)
        ELSE IF res.outcome # "ok"
        THEN Responded(res.outcome, db, ns)
        ELSE Responded("UnboundLocalError", res.db, ns)

\* POST /leaves/{leave_id}/approve-level
approve_at_level(db, ns, current_user, leave_id, action, t) ==
    LET approve == (action = "approve")
        res == approve_leave_level(db, leave_id, current_user, approve, t)
        db_leave == res.db.leaves[leave_id]
        requester == user_id_of(db_leave.employee_id)
        told == IF db_leave.status = "approved"
                THEN create_notification(ns, requester, "leave_approved",
                                         leave_id)
                ELSE IF db_leave.status = "denied"
                THEN create_notification(ns, requester, "leave_denied",
                                         leave_id)
                ELSE ns
    IN  IF res.outcome # "ok"
        THEN Responded(res.outcome, db, ns)
        ELSE IF db_leave.current_approver_id # 0 /\ db_leave.status = "pending"
        THEN Responded("ok", res.db,
                 create_notification(told,
                     user_id_of(db_leave.current_approver_id),
                     "approval_pending", leave_id))
        ELSE Responded("ok", res.db, told)

ReviewActions == {"approve", "deny"}

\* an endpoint ends with response res
Respond(res) ==
    /\ coins' = res.db.coins
    /\ txns' = res.db.txns
    /\ leaves' = res.db.leaves
    /\ approvals' = res.db.approvals
    /\ leave_types' = res.db.leave_types
    /\ notifications' = res.notifications
    /\ UNCHANGED <<sessions, attendance>>

RequestLeave ==
    /\ Len(leaves) < MaxLeaves
    /\ \E u \in Users, e \in Employees \cup {0}, shape \in RequestShapes,
          n \in LeaveTypeNames :
         Respond(request_leave(DB, notifications, u, e, shape[1], shape[2],
                               n, now))
    /\ UNCHANGED now

ReviewLeave ==
    \E r \in DOMAIN leaves, u \in Users, action \in ReviewActions,
       t2 \in {now} \cup {now + d : d \in ClockSteps} :
        /\ t2 <= MaxTime
        /\ Respond(review_leave(DB, notifications, u, r, action, now, t2))
        /\ now' = t2

ApproveAtLevel ==
    /\ \E r \in DOMAIN leaves, u \in Users, action \in ReviewActions :
         Respond(approve_at_level(DB, notifications, u, r, action, now))
    /\ UNCHANGED now

NextRouter ==
    \/ AdvanceClock
    \/ GrantCoins
    \/ ExpireCoins
    \/ RequestLeave
    \/ ReviewLeave
    \/ ApproveAtLevel

SpecRouter == Init /\ [][NextRouter]_vars

----------------------------------------------------------------------------
(* router/leave_types.py: the admin fills the catalog of leave types, and  *)
(* the handlers run on requests of those types.                            *)

MaxLeaveTypes == 2      \* rows of leave_types

\* the bodies POST /leave-types is called with: a type that does not draw
\* on the balance, and a type that allows no half days
LeaveTypeBodies ==
    { [code |-> "LWP", name |-> "casual",
       allow_half_day |-> TRUE, uses_balance |-> FALSE],
      [code |-> "CL", name |-> "casual",
       allow_half_day |-> FALSE, uses_balance |-> TRUE] }

\* POST /leave-types
create_leave_type(db, leave_type) ==
    IF \E i \in DOMAIN db.leave_types :
           db.leave_types[i].code = leave_type.code
    THEN Raised(db, "400 Leave type with this code already exists")
    ELSE Ok([db EXCEPT !.leave_types = Append(@, leave_type)])

CreateLeaveType ==
    /\ Len(leave_types) < MaxLeaveTypes
    /\ \E leave_type \in LeaveTypeBodies :
         Finish(create_leave_type(DB, leave_type))
    /\ UNCHANGED now

NextTypes ==
    \/ Next
    \/ CreateLeaveType

SpecTypes == Init /\ [][NextTypes]_vars

----------------------------------------------------------------------------
(* services/attendance_rt.py and router/attendance_rt.py: clocking in and  *)
(* out.  A work session is its employee and its status; a break interval   *)
(* is its session and whether it is still open (end_time is None).  The    *)
(* times and the seconds worked are left out.                              *)

MaxWorkSessions == 3    \* rows of work_sessions
MaxBreaks == 2          \* rows of break_intervals

ATT == [work_sessions |-> work_sessions, break_intervals |-> break_intervals]

Done(att, session_id) ==
    [outcome |-> "ok", att |-> att, session_id |-> session_id]
Failed(att, outcome) ==
    [outcome |-> outcome, att |-> att, session_id |-> 0]

\* the rows of an employee with status active or break
OpenSessions(ws, employee_id) ==
    { i \in DOMAIN ws : /\ ws[i].employee_id = employee_id
                         /\ ws[i].status \in {"active", "break"} }

\* order_by(WorkSession.id.desc()).first(); 0 when there is none
get_active_session(ws, employee_id) ==
    IF OpenSessions(ws, employee_id) = {} THEN 0
    ELSE CHOOSE i \in OpenSessions(ws, employee_id) :
            \A j \in OpenSessions(ws, employee_id) : j <= i

\* the open break of a session, order_by(BreakInterval.id.desc()).first()
open_break_of(bs, session_id) ==
    LET S == { i \in DOMAIN bs : bs[i].session_id = session_id /\ bs[i].open }
    IN  IF S = {} THEN 0 ELSE CHOOSE i \in S : \A j \in S : j <= i

\* a clock_in that opens a session whether or not one is open
clock_in_always(att, employee_id) ==
    Done([att EXCEPT !.work_sessions =
              Append(@, [employee_id |-> employee_id, status |-> "active"])],
         Len(att.work_sessions) + 1)

clock_in(att, employee_id) ==
    LET existing == get_active_session(att.work_sessions, employee_id)
    IN  IF existing # 0 THEN Done(att, existing)
        ELSE Done([att EXCEPT !.work_sessions =
                      Append(@, [employee_id |-> employee_id,
                                 status |-> "active"])],
                  Len(att.work_sessions) + 1)

start_break(att, employee_id) ==
    LET ws == get_active_session(att.work_sessions, employee_id)
    IN  IF ws = 0 THEN Failed(att, "No active session to start break")
        ELSE IF att.work_sessions[ws].status = "break" THEN Done(att, ws)
        ELSE Done([att EXCEPT
                     !.break_intervals =
                         Append(@, [session_id |-> ws, open |-> TRUE]),
                     !.work_sessions[ws].status = "break"], ws)

stop_break(att, employee_id) ==
    LET ws == get_active_session(att.work_sessions, employee_id)
        open_break == open_break_of(att.break_intervals, ws)
    IN  IF ws = 0 THEN Failed(att, "No break in progress")
        ELSE IF att.work_sessions[ws].status # "break"
        THEN Failed(att, "No break in progress")
        ELSE IF open_break = 0 THEN Failed(att, "Break state inconsistent")
        ELSE Done([att EXCEPT
                     !.break_intervals[open_break].open = FALSE,
                     !.work_sessions[ws].status = "active"], ws)

clock_out(att, employee_id) ==
    LET ws == get_active_session(att.work_sessions, employee_id)
        open_break == open_break_of(att.break_intervals, ws)
        closed == IF att.work_sessions[ws].status = "break" /\ open_break # 0
                  THEN [att.break_intervals EXCEPT ![open_break].open = FALSE]
                  ELSE att.break_intervals
    IN  IF ws = 0 THEN Failed(att, "No active session to clock out")
        ELSE Done([att EXCEPT
                     !.break_intervals = closed,
                     !.work_sessions[ws].status = "ended"], ws)

\* POST /attendance-rt/attendance/clock-in; department_ok: the department
\* of the body exists and is active
clock_in_with_notes(att, current_user, department_ok) ==
    LET employee == employee_of_user(current_user)
    IN  IF employee = 0 THEN Failed(att, "404 Employee profile not found")
        ELSE IF OpenSessions(att.work_sessions, employee) # {}
        THEN Failed(att, "400 You already have an active session")
        ELSE IF ~department_ok THEN Failed(att, "404 Department not found")
        ELSE Done([att EXCEPT !.work_sessions =
                      Append(@, [employee_id |-> employee,
                                 status |-> "active"])],
                  Len(att.work_sessions) + 1)

\* POST /attendance-rt/start-break: start_break, then db.commit()
post_start_break(att, current_user) ==
    IF employee_of_user(current_user) = 0
    THEN Failed(att, "Employee profile not found")
    ELSE start_break(att, employee_of_user(current_user))

\* POST /attendance-rt/stop-break: stop_break, then db.commit()
post_stop_break(att, current_user) ==
    IF employee_of_user(current_user) = 0
    THEN Failed(att, "Employee profile not found")
    ELSE stop_break(att, employee_of_user(current_user))

\* the rows the query of clock_out_with_notes matches
ActiveRows(ws, employee_id) ==
    { i \in DOMAIN ws : /\ ws[i].employee_id = employee_id
                         /\ ws[i].status = "active" }

\* POST /attendance-rt/attendance/clock-out; active_session is the row
\* first() returned, one of the matching rows in no stated order, 0 when
\* none matches
clock_out_with_notes(att, current_user, active_session) ==
    IF employee_of_user(current_user) = 0
    THEN Failed(att, "404 Employee profile not found")
    ELSE IF active_session = 0
    THEN Failed(att, "400 No active clock-in session found")
    ELSE Done([att EXCEPT !.work_sessions[active_session].status = "ended"],
              active_session)

\* an endpoint ends with result res; what a failed call changed is dropped
Clocked(res) ==
    /\ work_sessions' = res.att.work_sessions
    /\ break_intervals' = res.att.break_intervals
    /\ UNCHANGED <<now, coins, txns, leaves, approvals, leave_types, sessions,
                   notifications>>

\* POST /attendance-rt/admin/employee/{employee_id}/clock-in
AdminClockIn ==
    /\ Len(work_sessions) < MaxWorkSessions
    /\ \E e \in Employees : Clocked(clock_in(ATT, e))

ClockInWithNotes ==
    /\ Len(work_sessions) < MaxWorkSessions
    /\ \E u \in Users, department_ok \in BOOLEAN :
         Clocked(clock_in_with_notes(ATT, u, department_ok))

StartBreak ==
    /\ Len(break_intervals) < MaxBreaks
    /\ \E u \in Users : Clocked(post_start_break(ATT, u))

StopBreak ==
    \E u \in Users : Clocked(post_stop_break(ATT, u))

\* POST /attendance-rt/admin/employee/{employee_id}/clock-out
AdminClockOut ==
    \E e \in Employees : Clocked(clock_out(ATT, e))

ClockOutWithNotes ==
    \E u \in Users :
        LET S == ActiveRows(work_sessions, employee_of_user(u))
        IN  \E i \in (IF S = {} THEN {0} ELSE S) :
                Clocked(clock_out_with_notes(ATT, u, i))

NextAttendance ==
    \/ AdminClockIn
    \/ ClockInWithNotes
    \/ StartBreak
    \/ StopBreak
    \/ AdminClockOut
    \/ ClockOutWithNotes

SpecAttendance == Init /\ [][NextAttendance]_vars

----------------------------------------------------------------------------
(* The vocabulary of the properties *)

RECURSIVE SumAmounts(_, _)
SumAmounts(ts, S) ==
    IF S = {} THEN 0
    ELSE LET i == CHOOSE j \in S : TRUE
         IN  ts[i].amount + SumAmounts(ts, S \ {i})

\* the transactions of one type of an employee
TxnsOfType(ts, employee_id, type) ==
    { i \in DOMAIN ts : ts[i].employee_id = employee_id /\ ts[i].type = type }

LotsOf(cs, employee_id) ==
    { i \in DOMAIN cs : cs[i].employee_id = employee_id }

\* the consume transactions that reference a leave request
ConsumeTxnsFor(ts, leave_request_id) ==
    { i \in DOMAIN ts : /\ ts[i].type = "consume"
                         /\ ts[i].ref_leave_request_id = leave_request_id }

ConsumedFor(ts, leave_request_id) ==
    SumAmounts(ts, ConsumeTxnsFor(ts, leave_request_id))

\* what the step in progress writes in consume transactions for a request
NewlyConsumedFor(leave_request_id) ==
    SumAmounts(txns', ConsumeTxnsFor(txns', leave_request_id)
                        \ ConsumeTxnsFor(txns, leave_request_id))

\* the balance consume_coins can draw on at instant t
EligibleBalance(cs, employee_id, t) ==
    SumRemaining(cs, ConsumableLots(cs, employee_id, t))

\* the step in progress is the final approval of request r by approve_leave_level
FinalLevelApproval(r) ==
    /\ leaves[r].status = "pending"
    /\ leaves'[r].workflow_status = "fully_approved"

\* the step in progress is an approval of request r by either handler
ApprovalOf(r) ==
    /\ leaves[r].status = "pending"
    /\ leaves'[r].status = "approved"

----------------------------------------------------------------------------
(* C1: handlers running one at a time, after any sequence of committed     *)
(* grants, expiries and approvals, for every employee the remaining of the *)
(* employee's lots add up to the grant transactions minus the consume      *)
(* transactions minus the expire transactions of that employee.            *)
C1_LedgerReconciles ==
    \A e \in Employees :
        SumRemaining(coins, LotsOf(coins, e))
          = SumAmounts(txns, TxnsOfType(txns, e, "grant"))
            - SumAmounts(txns, TxnsOfType(txns, e, "consume"))
            - SumAmounts(txns, TxnsOfType(txns, e, "expire"))

\* an employee with grants, a consumption and an expiry on the ledger
C1_Witness ==
    \E e \in Employees :
        /\ TxnsOfType(txns, e, "grant") # {}
        /\ TxnsOfType(txns, e, "consume") # {}
        /\ TxnsOfType(txns, e, "expire") # {}
        /\ SumRemaining(coins, LotsOf(coins, e)) > 0

C3_ApprovedOnlyIfCovered ==
    [][ \A r \in DOMAIN leaves :
          ApprovalOf(r) =>
            EligibleBalance(coins, leaves[r].employee_id, now')
              >= leaves'[r].paid_days ]_vars

(* C4: handlers running one at a time, coins are consumed for a request by *)
(* at most one approval: once consume transactions reference a request, no *)
(* later step writes another one that references it.                       *)
C4_ConsumedOnce ==
    [][ \A r \in DOMAIN leaves :
          ConsumeTxnsFor(txns, r) # {} =>
            ConsumeTxnsFor(txns', r) = ConsumeTxnsFor(txns, r) ]_vars

\* an approved request that coins were consumed for, on which both approval
\* handlers are called again and raise
C4_Witness ==
    \E r \in DOMAIN leaves :
        /\ ConsumeTxnsFor(txns, r) # {}
        /\ leaves[r].status = "approved"
        /\ admin_approve_leave(DB, r, now, now).outcome
             = "Leave already approved"
        /\ \E u \in Users :
              approve_leave_level(DB, r, u, TRUE, now).outcome
                = "Leave request is not pending"

C8_LevelApprovalRecomputesSplit ==
    [][ \A r \in DOMAIN leaves :
          FinalLevelApproval(r) =>
            LET available == get_available_coins(coins, leaves[r].employee_id,
                                                 now).available_coins
            IN  /\ leaves'[r].paid_days = Min(leaves[r].total_days, available)
                /\ leaves'[r].unpaid_days
                     = leaves[r].total_days - leaves'[r].paid_days ]_vars

C10_TerminalStatus ==
    [][ \A r \in DOMAIN leaves :
          leaves[r].status \in {"approved", "denied"} =>
            leaves'[r].status = leaves[r].status ]_vars

DenialOf(r) ==
    /\ leaves[r].status # "denied"
    /\ leaves'[r].status = "denied"

(* C12: denying a request, by approve_leave_level with approve = false or  *)
(* by deny_leave_request, writes no ledger transaction and leaves every    *)
(* lot as it is.                                                           *)
C12_DenialWritesNothing ==
    [][ \A r \in DOMAIN leaves :
          DenialOf(r) => txns' = txns /\ coins' = coins ]_vars

\* a request with paid days denied while its employee holds coins
C12_Witness ==
    \E r \in DOMAIN leaves :
        /\ leaves[r].status = "denied"
        /\ leaves[r].paid_days > 0
        /\ EligibleBalance(coins, leaves[r].employee_id, now)
             >= leaves[r].paid_days

\* lot i comes before lot j by expiry ascending, then id ascending
ExpiresBefore(cs, i, j) ==
    \/ cs[i].expiry_date < cs[j].expiry_date
    \/ cs[i].expiry_date = cs[j].expiry_date /\ i < j

\* the lots whose remaining differs between two states of leave_coins
Touched(cs, after) ==
    { i \in DOMAIN cs : after[i].remaining # cs[i].remaining }

(* C13: consume_coins debits the eligible lots of the employee by expiry   *)
(* ascending, then id ascending, and writes one consume transaction per    *)
(* lot touched, in that order and of the amount taken from the lot; after  *)
(* a successful call every eligible lot ordered before a debited one has   *)
(* remaining 0; an amount no greater than the remaining of the first lot   *)
(* debits only that lot.                                                   *)
C13_FifoByExpiry ==
    \A e \in LedgerEmployees, a \in 1..Whole(CAP_COINS) :
        LET c       == consume_coins(coins, txns, e, a, 0, now)
            S       == ConsumableLots(coins, e, now)
            touched == Touched(coins, c.coins)
            new     == SubSeq(c.txns, Len(txns) + 1, Len(c.txns))
        IN  /\ touched \subseteq S
            /\ Len(new) = Cardinality(touched)
            /\ \A i \in touched : \E k \in DOMAIN new : new[k].coin_id = i
            /\ \A k \in DOMAIN new :
                  /\ new[k].type = "consume"
                  /\ new[k].coin_id \in touched
                  /\ new[k].amount = coins[new[k].coin_id].remaining
                                      - c.coins[new[k].coin_id].remaining
            /\ \A k1, k2 \in DOMAIN new :
                  k1 < k2 =>
                    ExpiresBefore(coins, new[k1].coin_id, new[k2].coin_id)
            /\ c.ret > 0 =>
                  \A i \in touched, j \in S :
                      ExpiresBefore(coins, j, i) => c.coins[j].remaining = 0
            /\ \A f \in S :
                  ( /\ \A j \in S \ {f} : ExpiresBefore(coins, f, j)
                    /\ a <= coins[f].remaining )
                  => touched = {f}

\* two lots of different expiry, the earlier one holding less than 4 coins:
\* consuming 4 coins succeeds and debits both, consuming half a coin debits
\* the earlier one alone
C13_Witness ==
    \E e \in LedgerEmployees :
      \E i, j \in ConsumableLots(coins, e, now) :
        /\ coins[i].expiry_date < coins[j].expiry_date
        /\ coins[i].remaining < Whole(4)
        /\ LET c == consume_coins(coins, txns, e, Whole(4), 0, now)
           IN  c.ret = Whole(4) /\ Touched(coins, c.coins) = {i, j}
        /\ Touched(coins, consume_coins(coins, txns, e, 1, 0, now).coins) = {i}

(* C14: grant_coins called with a positive amount grants nothing, creates  *)
(* no lot and writes no transaction when available_coins is 10 or more;    *)
(* otherwise it creates one lot with quantity and remaining equal to the   *)
(* smaller of the amount and 10 - available_coins, expiring twelve months  *)
(* after the grant, writes one grant transaction of that amount            *)
(* referencing the lot, and returns that amount.                           *)
C14_GrantClamped ==
    \A e \in LedgerEmployees, a \in 1..(Whole(10) + 2) :
        LET g       == grant_coins(coins, txns, e, a, now)
            avail   == get_available_coins(coins, e, now).available_coins
            granted == Min(a, Whole(10) - avail)
        IN  IF avail >= Whole(10)
            THEN g.ret = 0 /\ g.coins = coins /\ g.txns = txns
            ELSE /\ g.ret = granted
                 /\ g.coins = Append(coins, [ employee_id |-> e,
                                              grant_date  |-> now,
                                              expiry_date |-> now + 12,
                                              quantity    |-> granted,
                                              remaining   |-> granted ])
                 /\ g.txns = Append(txns, [ employee_id |-> e,
                                            coin_id     |-> Len(coins) + 1,
                                            type        |-> "grant",
                                            amount      |-> granted,
                                            ref_leave_request_id |-> 0 ])

\* 8 coins available and room for a lot: a grant of 5 grants 2
C14_Witness ==
    \E e \in LedgerEmployees :
        /\ get_available_coins(coins, e, now).available_coins = Whole(8)
        /\ grant_coins(coins, txns, e, Whole(5), now).ret = Whole(2)
        /\ Len(coins) < MaxLedgerLots

(* C15: whatever grant_coins calls are made, with whatever amounts and     *)
(* whatever other ledger operations in between, the available_coins that   *)
(* get_available_coins returns is never more than 10.                      *)
C15_AvailableAtMostCap ==
    \A e \in LedgerEmployees :
        get_available_coins(coins, e, now).available_coins <= Whole(10)

\* an employee at 10 coins after several grants, whose next grant is refused
C15_Witness ==
    \E e \in LedgerEmployees :
        /\ get_available_coins(coins, e, now).available_coins = Whole(10)
        /\ Cardinality(TxnsOfType(txns, e, "grant")) >= 2
        /\ Len(coins) < MaxLedgerLots
        /\ grant_coins(coins, txns, e, Whole(5), now).ret = 0

\* the expire transactions of a lot
ExpireTxnsOf(ts, coin_id) ==
    { k \in DOMAIN ts : ts[k].type = "expire" /\ ts[k].coin_id = coin_id }

(* C16: expire_coins zeroes exactly the lots whose expiry is at or before  *)
(* the instant and whose remaining is positive, with one expire            *)
(* transaction of the remaining for each, and returns their total; called  *)
(* again at the same instant it returns 0, changes no lot and writes no    *)
(* transaction; no lot ever has more than one expire transaction.          *)
C16_ExpiryIdempotent ==
    LET x   == expire_coins(coins, txns, now)
        y   == expire_coins(x.coins, x.txns, now)
        due == { i \in DOMAIN coins :
                   coins[i].expiry_date <= now /\ coins[i].remaining > 0 }
        new == SubSeq(x.txns, Len(txns) + 1, Len(x.txns))
    IN  /\ \A i \in DOMAIN coins :
              x.coins[i] = IF i \in due THEN [coins[i] EXCEPT !.remaining = 0]
                           ELSE coins[i]
        /\ Len(new) = Cardinality(due)
        /\ \A i \in due :
              \E k \in DOMAIN new : /\ new[k].type = "expire"
                                    /\ new[k].coin_id = i
                                    /\ new[k].amount = coins[i].remaining
        /\ x.ret = SumRemaining(coins, due)
        /\ y.ret = 0
        /\ y.coins = x.coins
        /\ y.txns = x.txns
        /\ \A i \in DOMAIN coins :
              /\ Cardinality(ExpireTxnsOf(txns, i)) <= 1
              /\ ExpireTxnsOf(txns, i) # {} => coins[i].remaining = 0

\* two lots due at the instant, one of them partly consumed: the sweep
\* returns what the two still hold
C16_Witness ==
    \E i, j \in ExpirableLots(coins, now) :
        /\ i # j
        /\ coins[i].remaining < coins[i].quantity
        /\ expire_coins(coins, txns, now).ret
             = coins[i].remaining + coins[j].remaining

\* the lots of an employee whose expiry is at or before instant t
ExpiredLots(cs, employee_id, t) ==
    { i \in LotsOf(cs, employee_id) : cs[i].expiry_date <= t }

(* C17: a lot whose expiry is at or before the instant counts for nothing  *)
(* in raw_available and available_coins, which are what they would be     *)
(* with the lot swept, and consume_coins never debits it nor writes a      *)
(* transaction for it, swept or not.                                       *)
C17_ExpiryAutomatic ==
    \A e \in LedgerEmployees, a \in 1..Whole(CAP_COINS) :
        LET expired == ExpiredLots(coins, e, now)
            swept   == [ i \in DOMAIN coins |->
                           IF i \in expired
                           THEN [coins[i] EXCEPT !.remaining = 0]
                           ELSE coins[i] ]
            c       == consume_coins(coins, txns, e, a, 0, now)
        IN  /\ get_available_coins(coins, e, now)
                 = get_available_coins(swept, e, now)
            /\ get_available_coins(coins, e, now).raw_available
                 = SumRemaining(coins, LotsOf(coins, e) \ expired)
            /\ \A i \in expired : c.coins[i] = coins[i]
            /\ \A k \in (Len(txns) + 1)..Len(c.txns) :
                  c.txns[k].coin_id \notin expired

\* an expired lot not yet swept, next to a live lot: the balance is the live
\* lot's, and consuming more than the live lot holds leaves the expired one
C17_Witness ==
    \E e \in LedgerEmployees :
      \E i \in ExpiredLots(coins, e, now), j \in LotsOf(coins, e) :
        /\ coins[i].remaining > 0
        /\ coins[j].expiry_date > now
        /\ coins[j].remaining > 0
        /\ get_available_coins(coins, e, now).raw_available
             = coins[j].remaining
        /\ coins[j].remaining < Whole(4)
        /\ consume_coins(coins, txns, e, Whole(4), 0, now).coins[i] = coins[i]

(* C18: every lot has 0 <= remaining <= quantity: a grant creates a lot    *)
(* with remaining equal to its quantity, and no step raises the remaining  *)
(* of a lot, lowers it below zero or changes its quantity.                 *)
C18_RemainingWithinQuantity ==
    [][ /\ Len(coins') >= Len(coins)
        /\ \A i \in DOMAIN coins' :
              /\ 0 <= coins'[i].remaining
              /\ coins'[i].remaining <= coins'[i].quantity
              /\ IF i \in DOMAIN coins
                 THEN /\ coins'[i].remaining <= coins[i].remaining
                      /\ coins'[i].quantity = coins[i].quantity
                 ELSE coins'[i].remaining = coins'[i].quantity ]_vars

\* a lot partly consumed, a lot emptied and a lot untouched
C18_Witness ==
    \E i, j, k \in DOMAIN coins :
        /\ 0 < coins[i].remaining
        /\ coins[i].remaining < coins[i].quantity
        /\ coins[j].remaining = 0
        /\ coins[j].quantity > 0
        /\ coins[k].remaining = coins[k].quantity

(* C19: every leave request has total_days = paid_days + unpaid_days with  *)
(* neither negative, from its creation on and after any approval that      *)
(* computes the split anew.                                                *)
C19_SplitAddsUp ==
    \A r \in DOMAIN leaves :
        /\ leaves[r].total_days = leaves[r].paid_days + leaves[r].unpaid_days
        /\ leaves[r].paid_days >= 0
        /\ leaves[r].unpaid_days >= 0

\* a request that admin_approve_leave approved part paid, part unpaid, and
\* consumed the paid part for
C19_Witness ==
    \E r \in DOMAIN leaves :
        /\ leaves[r].workflow_status = "admin_approved"
        /\ leaves[r].paid_days > 0
        /\ leaves[r].unpaid_days > 0
        /\ ConsumedFor(txns, r) = leaves[r].paid_days

\* the leave type names create_leave_request is tried with
CreateNames == LeaveTypeNames \cup {"sick"}

(* C20: create_leave_request never touches the ledger: whether it succeeds *)
(* or raises, leave_coins and leave_coin_txn are as they were; when it     *)
(* raises nothing else changes either; a created request is pending, with  *)
(* paid days the smaller of its total days and the balance available at    *)
(* creation, and unpaid days the rest.                                     *)
C20_CreateLeavesLedger ==
    \A e \in Employees, shape \in RequestShapes, n \in CreateNames :
        LET res   == create_leave_request(DB, e, shape[1], shape[2], n, now)
            total == calculate_leave_days(shape[1], shape[2])
            paid  == Min(total,
                         get_available_coins(coins, e, now).available_coins)
            id    == Len(leaves) + 1
        IN  /\ res.db.coins = coins
            /\ res.db.txns = txns
            /\ IF res.outcome = "ok"
               THEN /\ Len(res.db.leaves) = id
                    /\ SubSeq(res.db.leaves, 1, Len(leaves)) = leaves
                    /\ res.db.leaves[id].employee_id = e
                    /\ res.db.leaves[id].status = "pending"
                    /\ res.db.leaves[id].total_days = total
                    /\ res.db.leaves[id].paid_days = paid
                    /\ res.db.leaves[id].unpaid_days = total - paid
               ELSE res.db = DB

\* an employee with less than two coins: a request of two days is created
\* part paid, part unpaid, and a request that ends before it starts raises
C20_Witness ==
    \E e \in Employees, n \in LeaveTypeNames :
        /\ Len(leaves) < MaxLeaves
        /\ LET res == create_leave_request(DB, e, 1, "full_day", n, now)
           IN  /\ res.outcome = "ok"
               /\ res.db.leaves[Len(leaves) + 1].paid_days > 0
               /\ res.db.leaves[Len(leaves) + 1].unpaid_days > 0
        /\ create_leave_request(DB, e, -1, "full_day", n, now).outcome
             = "End date must be >= start date"

\* the messages of the PermissionError approve_leave_level raises
PermissionErrors ==
    {"Approver profile not found", "No pending approval for this user"}

\* user u is the approver of a pending step of request r
IsApproverOfPendingStep(u, r) ==
    /\ employee_of_user(u) # 0
    /\ \E i \in PendingApprovalsOf(approvals, r) :
          approvals[i].approver_id = employee_of_user(u)

(* C21: approve_leave_level called by a user who is not the approver of a  *)
(* pending step of the request fails and commits nothing; on a request     *)
(* that is still pending it fails with a permission error, on a request    *)
(* that is approved or denied with "Leave request is not pending".         *)
C21_NonApproverRejected ==
    \A r \in DOMAIN leaves, u \in Users, approve \in BOOLEAN :
        ~IsApproverOfPendingStep(u, r) =>
          LET res == approve_leave_level(DB, r, u, approve, now)
          IN  /\ res.db = DB
              /\ IF leaves[r].status = "pending"
                 THEN res.outcome \in PermissionErrors
                 ELSE res.outcome = "Leave request is not pending"

(* C21 as it was stated: approve_leave_level called by a user who is not   *)
(* the approver of a pending step of the request fails with a permission   *)
(* error and commits nothing.                                              *)
C21_NonApproverPermissionError ==
    \A r \in DOMAIN leaves, u \in Users, approve \in BOOLEAN :
        ~IsApproverOfPendingStep(u, r) =>
          LET res == approve_leave_level(DB, r, u, approve, now)
          IN  /\ res.db = DB
              /\ res.outcome \in PermissionErrors

\* a pending request with a pending step, a ledger with coins on it, a user
\* without an employee profile and an employee who is not the approver
C21_Witness ==
    \E r \in DOMAIN leaves :
        /\ leaves[r].status = "pending"
        /\ PendingApprovalsOf(approvals, r) # {}
        /\ coins # << >>
        /\ \E u \in Users :
              approve_leave_level(DB, r, u, TRUE, now).outcome
                = "Approver profile not found"
        /\ \E u \in Users :
              approve_leave_level(DB, r, u, TRUE, now).outcome
                = "No pending approval for this user"

\* the pending steps of request r whose approver is its current approver
CurrentPendingSteps(r) ==
    { i \in PendingApprovalsOf(approvals, r) :
        approvals[i].approver_id = leaves[r].current_approver_id }

(* C22: every leave request has at most one approval step that is pending  *)
(* and whose approver is the current approver of the request.              *)
C22_OneCurrentPendingStep ==
    \A r \in DOMAIN leaves : Cardinality(CurrentPendingSteps(r)) <= 1

\* a pending request waiting for its current approver
C22_Witness ==
    \E r \in DOMAIN leaves :
        /\ leaves[r].status = "pending"
        /\ leaves[r].current_approver_id # 0
        /\ Cardinality(CurrentPendingSteps(r)) = 1

\* the steps of request r
StepsOf(r) == { i \in DOMAIN approvals : approvals[i].leave_request_id = r }

\* the steps of request r that are marked final
FinalSteps(r) == { i \in StepsOf(r) : approvals[i].is_final }

(* C23: an approved request was approved by its chain or by an admin.  A   *)
(* request approve_leave_level approved has a final step and it is         *)
(* approved.  A request admin_approve_leave approved has no step left      *)
(* pending: the steps that were outstanding are skipped, the final step    *)
(* among them.                                                             *)
C23_ApprovedByChainOrAdmin ==
    \A r \in DOMAIN leaves :
        leaves[r].status = "approved" =>
          IF leaves[r].workflow_status = "fully_approved"
          THEN /\ FinalSteps(r) # {}
               /\ \A i \in FinalSteps(r) : approvals[i].status = "approved"
          ELSE /\ leaves[r].workflow_status = "admin_approved"
               /\ PendingApprovalsOf(approvals, r) = {}
               /\ \A i \in StepsOf(r) : approvals[i].status = "skipped"

(* C23 as it was stated: a request whose status is approved has its final  *)
(* approval step in status approved.                                       *)
C23_ApprovedHasFinalStepApproved ==
    \A r \in DOMAIN leaves :
        leaves[r].status = "approved" =>
          \A i \in FinalSteps(r) : approvals[i].status = "approved"

\* a request approved by its chain, coins consumed for it
C23_Witness ==
    \E r \in DOMAIN leaves :
        /\ leaves[r].status = "approved"
        /\ leaves[r].workflow_status = "fully_approved"
        /\ \E i \in FinalSteps(r) : approvals[i].status = "approved"
        /\ ConsumeTxnsFor(txns, r) # {}

\* employee e has no available balance at the current instant
ZeroBalance(e) == get_available_coins(coins, e, now).available_coins = 0

(* C24: for an employee with zero available balance, a request for a leave *)
(* type that draws on the balance is created with no paid days and all its *)
(* days unpaid, and the approval of a pending request of the employee, by  *)
(* approve_leave_level on the final step or by admin_approve_leave,        *)
(* succeeds, approves the request, and leaves every lot and the            *)
(* transaction log as they were.                                           *)
C24_ZeroBalanceApproval ==
    \A e \in Employees :
        ZeroBalance(e) =>
          /\ \A shape \in RequestShapes, n \in LeaveTypeNames :
                LET res == create_leave_request(DB, e, shape[1], shape[2],
                                                n, now)
                    id  == Len(leaves) + 1
                IN  res.outcome = "ok" =>
                      /\ res.db.leaves[id].paid_days = 0
                      /\ res.db.leaves[id].unpaid_days
                           = calculate_leave_days(shape[1], shape[2])
          /\ \A r \in DOMAIN leaves :
                (leaves[r].employee_id = e /\ leaves[r].status = "pending") =>
                  /\ \A u \in Users :
                        IsApproverOfPendingStep(u, r) =>
                          LET res == approve_leave_level(DB, r, u, TRUE, now)
                          IN  /\ res.outcome = "ok"
                              /\ res.db.leaves[r].status = "approved"
                              /\ res.db.coins = coins
                              /\ res.db.txns = txns
                  /\ \A t2 \in {now} \cup {now + d : d \in ClockSteps} :
                        LET res == admin_approve_leave(DB, r, now, t2)
                        IN  /\ res.outcome = "ok"
                            /\ res.db.leaves[r].status = "approved"
                            /\ res.db.leaves[r].paid_days = 0
                            /\ res.db.coins = coins
                            /\ res.db.txns = txns

\* a request created all unpaid and approved by its chain while its
\* employee, who was granted coins once, has no balance left: nothing was
\* consumed for it
C24_Witness ==
    \E r \in DOMAIN leaves :
        /\ ZeroBalance(leaves[r].employee_id)
        /\ LotsOf(coins, leaves[r].employee_id) # {}
        /\ leaves[r].status = "approved"
        /\ leaves[r].workflow_status = "fully_approved"
        /\ leaves[r].paid_days = 0
        /\ leaves[r].unpaid_days = leaves[r].total_days
        /\ ConsumeTxnsFor(txns, r) = {}

\* a notification of one type about request r, to anybody
Notified(ntype, r) ==
    \E n \in notifications : n.type = ntype /\ n.related_entity_id = r

\* a notification of one type about request r to the employee who asked
RequesterNotified(ntype, r) ==
    [ user_id |-> user_id_of(leaves[r].employee_id), type |-> ntype,
      related_entity_id |-> r ] \in notifications

(* C25: every committed transition of a request made through the          *)
(* endpoints has its notification by the time the endpoint has returned:   *)
(* a request that exists was notified as submitted, and as pending         *)
(* approval to its first approver when it has one; an approved request was *)
(* notified as approved to its requester, a denied one as denied.          *)
C25_TransitionsNotified ==
    \A r \in DOMAIN leaves :
        /\ Notified("leave_request", r)
        /\ leaves[r].current_approver_id # 0 =>
             [ user_id |-> user_id_of(leaves[r].current_approver_id),
               type |-> "approval_pending",
               related_entity_id |-> r ] \in notifications
        /\ leaves[r].status = "approved" =>
             RequesterNotified("leave_approved", r)
        /\ leaves[r].status = "denied" =>
             RequesterNotified("leave_denied", r)

(* C26: create_leave_request called for an employee with valid dates and   *)
(* a leave type name that matches no leave type succeeds and creates a     *)
(* leave type of that name, whatever leave types exist already.            *)
C26_UnknownTypeCreated ==
    \A e \in Employees, shape \in RequestShapes, n \in CreateNames :
        ( /\ shape[1] >= 0
          /\ FindLeaveType(leave_types, n) = 0 )
        => LET res == create_leave_request(DB, e, shape[1], shape[2], n, now)
           IN  /\ res.outcome = "ok"
               /\ FindLeaveType(res.db.leave_types, n) # 0

\* the leave type of request r draws on the balance
UsesBalance(r) == leave_types[leaves[r].leave_type_id].uses_balance

(* C27: a request whose leave type does not draw on the balance is never   *)
(* paid from the ledger: no consume transaction references it, whichever   *)
(* way it was approved, and its paid days stay its total days, with no     *)
(* unpaid days.                                                            *)
C27_NoBalanceTypeLeavesLedger ==
    \A r \in DOMAIN leaves :
        ~UsesBalance(r) =>
          /\ ConsumeTxnsFor(txns, r) = {}
          /\ leaves[r].paid_days = leaves[r].total_days
          /\ leaves[r].unpaid_days = 0

(* C28: lots being created by grant_coins only, calls running one at a    *)
(* time and the clock never going back, the uncapped raw_available that    *)
(* get_available_coins reports at the current instant is at most 10 for    *)
(* every employee, so available_coins equals raw_available.                *)
C28_RawAvailableAtMostCap ==
    \A e \in Employees :
        LET bal == get_available_coins(coins, e, now)
        IN  /\ bal.raw_available <= Whole(CAP_COINS)
            /\ bal.available_coins = bal.raw_available

\* an employee whose lots add up to the cap, a further grant returning 0
C28_Witness ==
    \E e \in LedgerEmployees :
        /\ get_available_coins(coins, e, now).raw_available = Whole(CAP_COINS)
        /\ Cardinality(AvailableLots(coins, e, now)) >= 2
        /\ \A a \in LedgerGrantAmounts :
              grant_coins(coins, txns, e, a, now).ret = 0

(* C29: a request that is approved or denied has no approval step left in *)
(* status pending: each of its steps is approved, denied or skipped.       *)
C29_DecidedHasNoPendingStep ==
    \A r \in DOMAIN leaves :
        leaves[r].status \in {"approved", "denied"} =>
          \A i \in StepsOf(r) :
              approvals[i].status \in {"approved", "denied", "skipped"}

\* the latest work session of an employee, the one the employee's last
\* clock-in that opened a session opened; 0 when there is none
LatestSession(ws, employee_id) ==
    LET S == { i \in DOMAIN ws : ws[i].employee_id = employee_id }
    IN  IF S = {} THEN 0 ELSE CHOOSE i \in S : \A j \in S : j <= i

====
